---- MODULE Spec2Model ----
(***************************************************************************)
(* Streaming chat relay core of LLM-FastAPI: the Producer task, the local  *)
(* channel, the fire-and-forget flush tasks, the SSE Emitter               *)
(* (stream_generator), the stop endpoint (stop_chat) and the Reconnect     *)
(* Replayer (reconnect_stream), for one chat.                              *)
(*                                                                         *)
(* Every action is one run of the code between two suspension points       *)
(* (awaits that really suspend, or yields) of a coroutine: asyncio runs    *)
(* the code between two suspension points of a task atomically.            *)
(* queue.put on the unbounded asyncio.Queue never suspends.                *)
(***************************************************************************)
EXTENDS Integers, Sequences, FiniteSets, TLC

(* ---------------------------------------------------------------------- *)
(* Bounds of the model                                                     *)
(* ---------------------------------------------------------------------- *)

\* upstream events (chunks with text, stalls) one Producer run receives
MaxUpstream == 2

\* largest Last-Event-ID a reconnecting client sends
MaxLastEventId == 1

(* ---------------------------------------------------------------------- *)
(* Settings (src/app/core/config.py, ChatStreamSettings)                   *)
(* ---------------------------------------------------------------------- *)

\* flush thresholds, scaled down from 25 and 150 so that background flushes
\* happen within MaxUpstream chunks (as in the source, DB_FLUSH_EVERY_M is a
\* multiple of REDIS_FLUSH_EVERY_N)
REDIS_FLUSH_EVERY_N == 2
DB_FLUSH_EVERY_M == 2

\* the response window and the poll periods of reconnect_stream in clock
\* ticks, scaled down from 600 s, 0.5 s and 3 s (the DB period is the longer
\* one and does not divide the window)
TOTAL_RESPONSE_TIMEOUT_S == 3
RECONNECT_POLL_INTERVAL_REDIS_S == 1
RECONNECT_POLL_INTERVAL_DB_S == 2

\* the lifetime of the two cache keys in clock ticks, scaled down from 3600 s
REDIS_TTL_S == 2

\* the longest accumulation, in items, that clean_response is applied to when
\* the accumulations are enumerated
MaxPieces == 3

HEARTBEAT_PLACEHOLDER == "<:<alive>:>"
INTERRUPTED_PLACEHOLDER == "<:<interrupt>:>"
FAILED_PLACEHOLDER == "<:<failed>:>"
DONE_PLACEHOLDER == "<:<done>:>"

\* ChatStatus (src/app/schemas/chat.py)
ACTIVE == "active"
COMPLETED == "completed"
INTERRUPTED == "interrupted"
FAILED == "failed"

TerminalStatuses == {COMPLETED, INTERRUPTED, FAILED}
TerminalSentinels == {DONE_PLACEHOLDER, INTERRUPTED_PLACEHOLDER, FAILED_PLACEHOLDER}
Sentinels == TerminalSentinels \cup {HEARTBEAT_PLACEHOLDER}

(* ---------------------------------------------------------------------- *)
(* Text                                                                    *)
(* ---------------------------------------------------------------------- *)

\* The delta.content of the n-th upstream chunk that carries text.  The code
\* never inspects a chunk's text except to compare it with the sentinels, so
\* the chunks are given pairwise distinct texts: a lost, duplicated or
\* reordered chunk then shows in every sequence that holds it.
ChunkText(n) == <<"t1", "t2", "t3", "t4", "t5", "t6">>[n]

\* Other delta.content values an upstream may send: whitespace, and the two
\* halves of a text that spells a placeholder across two chunks.
OtherTexts == {" ", "<:<do", "ne>:>"}

\* the characters of an item, as "".join and clean_response see them
Chars(item) ==
    CASE item = HEARTBEAT_PLACEHOLDER -> <<"<", ":", "<", "a", "l", "i", "v", "e", ">", ":", ">">>
      [] item = INTERRUPTED_PLACEHOLDER ->
            <<"<", ":", "<", "i", "n", "t", "e", "r", "r", "u", "p", "t", ">", ":", ">">>
      [] item = FAILED_PLACEHOLDER -> <<"<", ":", "<", "f", "a", "i", "l", "e", "d", ">", ":", ">">>
      [] item = DONE_PLACEHOLDER -> <<"<", ":", "<", "d", "o", "n", "e", ">", ":", ">">>
      [] item = "<:<do" -> <<"<", ":", "<", "d", "o">>
      [] item = "ne>:>" -> <<"n", "e", ">", ":", ">">>
      [] OTHER -> <<item>>

\* "".join(items)
RECURSIVE Join(_)
Join(items) ==
    IF items = <<>> THEN <<>> ELSE Chars(Head(items)) \o Join(Tail(items))

\* does literal lit occur in raw at position i (1-based)
MatchesAt(raw, i, lit) ==
    /\ i + Len(lit) - 1 <= Len(raw)
    /\ SubSeq(raw, i, i + Len(lit) - 1) = lit

\* the placeholders in the order of the regular expression's alternation
Placeholders ==
    << Chars(HEARTBEAT_PLACEHOLDER), Chars(INTERRUPTED_PLACEHOLDER),
       Chars(FAILED_PLACEHOLDER), Chars(DONE_PLACEHOLDER) >>

\* re.sub(pattern, "", raw): one left-to-right pass, non-overlapping matches
RECURSIVE ReSub(_, _)
ReSub(raw, i) ==
    IF i > Len(raw) THEN <<>>
    ELSE LET hits == {j \in 1..Len(Placeholders) : MatchesAt(raw, i, Placeholders[j])}
         IN  IF hits # {}
             THEN LET j == CHOOSE x \in hits : \A y \in hits : x <= y
                  IN  ReSub(raw, i + Len(Placeholders[j]))
             ELSE <<raw[i]>> \o ReSub(raw, i + 1)

IsSpace(c) == c \in {" ", "\n", "\t"}

\* str.strip()
RECURSIVE Strip(_)
Strip(s) ==
    IF s = <<>> THEN s
    ELSE IF IsSpace(Head(s)) THEN Strip(Tail(s))
    ELSE IF IsSpace(s[Len(s)]) THEN Strip(SubSeq(s, 1, Len(s) - 1))
    ELSE s

\* a cleaning that leaves the surrounding whitespace in place
CleanNoStrip(raw) == ReSub(raw, 1)

clean_response(raw) == Strip(ReSub(raw, 1))

(* ---------------------------------------------------------------------- *)
(* State                                                                   *)
(* ---------------------------------------------------------------------- *)

VARIABLES
    \* Producer task (services/chat.py, producer)
    p_pc,           \* where the Producer is suspended
    redis_buf,      \* items not yet handed to a Buffer flush
    db_buf,         \* items not yet handed to a partial DB write
    all_chunks,     \* every item accumulated, sentinels included
    final_usage,    \* TRUE once a chunk carrying usage was received
    status,         \* the Producer's tentative status
    upstream_n,     \* upstream events received so far
    text_n,         \* upstream chunks with text received so far
    p_cancelled,    \* TRUE once the Producer task was cancelled
    read_cancelled, \* history: TRUE once wait_for has cancelled a pending anext(stream)
    \* local channel (asyncio.Queue)
    queue,          \* items enqueued and not yet read by the Emitter
    enqueued,       \* history: every item ever enqueued, in order
    \* fire-and-forget tasks created by the Producer
    redis_tasks,    \* snapshots of pending flush_to_redis tasks
    db_tasks,       \* snapshots of pending partial flush_to_db tasks
    db_failed,      \* history: TRUE once a partial flush_to_db task has raised
    \* cache
    cache_up,       \* FALSE while cache operations raise
    status_store,   \* chat:status:<uuid>
    buffer,         \* chat:buffer:<uuid>
    status_ttl,     \* ticks the status key has left to live (0: no key)
    buffer_ttl,     \* ticks the buffer key has left to live (0: no key)
    \* Chat row
    chat_status,    \* Chat.status
    llm_response,   \* Chat.llm_response, a sequence of characters
    chat_usage,     \* TRUE once the usage counters were written
    db_final,       \* history: TRUE once the final Chat Record write committed
    \* SSE Emitter (services/chat.py, stream_generator)
    e_pc,
    chunk_idx,
    e_pending,      \* chunk read from the channel whose frame is not yet sent
    e_disconnected, \* history: TRUE once the client disconnected
    \* stop endpoint (api/v1/chat.py, stop_chat)
    s_pc,
    s_response,     \* the HTTP status of the last stop_chat call that has ended
    stop_wrote,     \* history: was the Producer in its streaming loop when
                    \* stop_chat wrote interrupted ("never", "loop", "other")
    \* Reconnect Replayer (services/chat.py, reconnect_stream)
    r_pc,
    r_json,         \* the JSON body start_chat answered to a reconnection
    last_event_id,
    sent_so_far,
    use_redis,
    db_content_sent,
    r_cache_failed, \* history: TRUE once a cache read of the Replayer raised
    r_now,          \* clock ticks since Chat.created_at, as far as the timed
                    \* specification of reconnect_stream counts them
    \* client
    frames          \* frames sent on the response stream the client is connected
                    \* to (stream_generator's, then reconnect_stream's), in order

producer_vars == << p_pc, redis_buf, db_buf, all_chunks, final_usage, status,
                    upstream_n, text_n, p_cancelled, read_cancelled >>
channel_vars == << queue, enqueued >>
task_vars == << redis_tasks, db_tasks, db_failed >>
cache_vars == << cache_up, status_store, buffer, status_ttl, buffer_ttl >>
db_vars == << chat_status, llm_response, chat_usage, db_final >>
emitter_vars == << e_pc, chunk_idx, e_pending, e_disconnected >>
stop_vars == << s_pc, stop_wrote, s_response >>
replayer_vars == << r_pc, r_json, last_event_id, sent_so_far, use_redis,
                    db_content_sent, r_cache_failed, r_now >>

vars == << producer_vars, channel_vars, task_vars, cache_vars, db_vars,
           emitter_vars, stop_vars, replayer_vars, frames >>

\* The state when start_chat has saved the Chat row as active, set the Status
\* Store to active, created the queue and the Producer task and returned the
\* StreamingResponse over stream_generator.
Init ==
    /\ p_pc = "start"
    /\ redis_buf = <<>>
    /\ db_buf = <<>>
    /\ all_chunks = <<>>
    /\ final_usage = FALSE
    /\ status = COMPLETED
    /\ upstream_n = 0
    /\ text_n = 0
    /\ p_cancelled = FALSE
    /\ read_cancelled = FALSE
    /\ queue = <<>>
    /\ enqueued = <<>>
    /\ redis_tasks = <<>>
    /\ db_tasks = <<>>
    /\ db_failed = FALSE
    /\ cache_up = TRUE
    /\ status_store = ACTIVE
    /\ buffer = <<>>
    /\ status_ttl = REDIS_TTL_S
    /\ buffer_ttl = 0
    /\ chat_status = ACTIVE
    /\ llm_response = <<>>
    /\ chat_usage = FALSE
    /\ db_final = FALSE
    /\ e_pc = "start"
    /\ chunk_idx = 0
    /\ e_pending = "none"
    /\ e_disconnected = FALSE
    /\ s_pc = "idle"
    /\ stop_wrote = "never"
    /\ s_response = "none"
    /\ r_pc = "idle"
    /\ r_json = [text |-> <<>>, status |-> "none"]
    /\ last_event_id = 0
    /\ sent_so_far = 0
    /\ use_redis = TRUE
    /\ db_content_sent = 0
    /\ r_cache_failed = FALSE
    /\ r_now = 0
    /\ frames = <<>>

(* ---------------------------------------------------------------------- *)
(* Creation of a chat (start_chat without chat_uuid)                       *)
(* ---------------------------------------------------------------------- *)

\* The state when the POST /chat of a new chat has been received: no Chat row
\* and no cache key of the chat exist yet.
InitRequest ==
    /\ p_pc = "request"
    /\ redis_buf = <<>>
    /\ db_buf = <<>>
    /\ all_chunks = <<>>
    /\ final_usage = FALSE
    /\ status = COMPLETED
    /\ upstream_n = 0
    /\ text_n = 0
    /\ p_cancelled = FALSE
    /\ read_cancelled = FALSE
    /\ queue = <<>>
    /\ enqueued = <<>>
    /\ redis_tasks = <<>>
    /\ db_tasks = <<>>
    /\ db_failed = FALSE
    /\ cache_up = TRUE
    /\ status_store = "none"
    /\ buffer = <<>>
    /\ status_ttl = 0
    /\ buffer_ttl = 0
    /\ chat_status = "none"
    /\ llm_response = <<>>
    /\ chat_usage = FALSE
    /\ db_final = FALSE
    /\ e_pc = "start"
    /\ chunk_idx = 0
    /\ e_pending = "none"
    /\ e_disconnected = FALSE
    /\ s_pc = "idle"
    /\ stop_wrote = "never"
    /\ s_response = "none"
    /\ r_pc = "idle"
    /\ r_json = [text |-> <<>>, status |-> "none"]
    /\ last_event_id = 0
    /\ sent_so_far = 0
    /\ use_redis = TRUE
    /\ db_content_sent = 0
    /\ r_cache_failed = FALSE
    /\ r_now = 0
    /\ frames = <<>>

\* save_chat(db=db, status=ChatStatus.ACTIVE, ...): the Chat row is committed
\* with status active and an empty llm_response.
StartChatSave ==
    /\ p_pc = "request"
    /\ p_pc' = "saved"
    /\ chat_status' = ACTIVE
    /\ llm_response' = <<>>
    /\ UNCHANGED << chat_usage, db_final >>
    /\ UNCHANGED << redis_buf, db_buf, all_chunks, final_usage, status, upstream_n,
                    text_n, p_cancelled, read_cancelled >>
    /\ UNCHANGED << channel_vars, task_vars, cache_vars, emitter_vars, stop_vars,
                    replayer_vars, frames >>

\* set_status(redis, chat_uuid, ChatStatus.ACTIVE), then the Producer task is
\* created with no await in between.  When the cache raises, the request ends
\* with an error and no Producer task exists.
StartChatSetStatus ==
    /\ p_pc = "saved"
    /\ IF cache_up
       THEN /\ status_store' = ACTIVE
            /\ status_ttl' = REDIS_TTL_S
            /\ p_pc' = "start"
       ELSE /\ UNCHANGED << status_store, status_ttl >>
            /\ p_pc' = "refused"
    /\ UNCHANGED << cache_up, buffer, buffer_ttl >>
    /\ UNCHANGED << redis_buf, db_buf, all_chunks, final_usage, status, upstream_n,
                    text_n, p_cancelled, read_cancelled >>
    /\ UNCHANGED << channel_vars, task_vars, db_vars, emitter_vars, stop_vars,
                    replayer_vars, frames >>

(* ---------------------------------------------------------------------- *)
(* Producer                                                                *)
(* ---------------------------------------------------------------------- *)

\* the terminal sentinel of a status (finally block)
TerminalOf(st) ==
    IF st = FAILED THEN FAILED_PLACEHOLDER
    ELSE IF st = INTERRUPTED THEN INTERRUPTED_PLACEHOLDER
    ELSE DONE_PLACEHOLDER

\* remove element i of a sequence
RemoveAt(s, i) == SubSeq(s, 1, i - 1) \o SubSeq(s, i + 1, Len(s))

\* The finally block up to its first suspension, the pipeline of the final
\* flush_to_redis: st, ac and q are the status, all_chunks and the channel as
\* the try block and its handlers left them.
EnterFinally(st, ac, q, en) ==
    LET terminal == TerminalOf(st)
    IN  /\ status' = st
        /\ redis_buf' = Append(redis_buf, terminal)
        /\ db_buf' = Append(db_buf, terminal)
        /\ all_chunks' = Append(ac, terminal)
        /\ queue' = Append(q, terminal)
        /\ enqueued' = Append(en, terminal)
        /\ p_pc' = "fin_redis"

\* The handlers of asyncio.TimeoutError and of Exception, then the finally block.
FailThenFinally ==
    EnterFinally(FAILED,
                 Append(all_chunks, FAILED_PLACEHOLDER),
                 Append(queue, FAILED_PLACEHOLDER),
                 Append(enqueued, FAILED_PLACEHOLDER))

\* completion_call returned a stream: the Producer enters the loop and awaits
\* the first chunk.
ProducerStartOk ==
    /\ p_pc = "start"
    /\ p_pc' = "next"
    /\ UNCHANGED << redis_buf, db_buf, all_chunks, final_usage, status, upstream_n,
                    text_n, p_cancelled, read_cancelled >>
    /\ UNCHANGED << channel_vars, task_vars, cache_vars, db_vars, emitter_vars,
                    stop_vars, replayer_vars, frames >>

\* completion_call returned None: status failed, return, finally block.
ProducerStartNull ==
    /\ p_pc = "start"
    /\ EnterFinally(FAILED, all_chunks, queue, enqueued)
    /\ UNCHANGED << final_usage, upstream_n, text_n, p_cancelled, read_cancelled >>
    /\ UNCHANGED << task_vars, cache_vars, db_vars, emitter_vars, stop_vars,
                    replayer_vars, frames >>

\* an accumulation whose partial DB write clears all_chunks together with db_buf
AccumulateClearsAllChunks(text) ==
    LET rb == Append(redis_buf, text)
        dbb == Append(db_buf, text)
    IN  /\ queue' = Append(queue, text)
        /\ enqueued' = Append(enqueued, text)
        /\ IF Len(rb) >= REDIS_FLUSH_EVERY_N
           THEN redis_tasks' = Append(redis_tasks, rb) /\ redis_buf' = <<>>
           ELSE redis_tasks' = redis_tasks /\ redis_buf' = rb
        /\ IF Len(dbb) >= DB_FLUSH_EVERY_M
           THEN db_tasks' = Append(db_tasks, dbb) /\ db_buf' = <<>> /\ all_chunks' = <<>>
           ELSE db_tasks' = db_tasks /\ db_buf' = dbb
                /\ all_chunks' = Append(all_chunks, text)
        /\ db_failed' = db_failed
        /\ p_pc' = "check"

\* an accumulation whose snapshots are not followed by a clear
AccumulateWithoutClear(text) ==
    LET rb == Append(redis_buf, text)
        dbb == Append(db_buf, text)
    IN  /\ all_chunks' = Append(all_chunks, text)
        /\ queue' = Append(queue, text)
        /\ enqueued' = Append(enqueued, text)
        /\ redis_tasks' = IF Len(rb) >= REDIS_FLUSH_EVERY_N
                          THEN Append(redis_tasks, rb) ELSE redis_tasks
        /\ redis_buf' = rb
        /\ db_tasks' = IF Len(dbb) >= DB_FLUSH_EVERY_M
                       THEN Append(db_tasks, dbb) ELSE db_tasks
        /\ db_buf' = dbb
        /\ db_failed' = db_failed
        /\ p_pc' = "check"

\* "accumulate" and the two threshold checks, up to the await of
\* check_cancellation.
Accumulate(text) ==
    LET rb == Append(redis_buf, text)
        dbb == Append(db_buf, text)
    IN  /\ all_chunks' = Append(all_chunks, text)
        /\ queue' = Append(queue, text)
        /\ enqueued' = Append(enqueued, text)
        /\ IF Len(rb) >= REDIS_FLUSH_EVERY_N
           THEN redis_tasks' = Append(redis_tasks, rb) /\ redis_buf' = <<>>
           ELSE redis_tasks' = redis_tasks /\ redis_buf' = rb
        /\ IF Len(dbb) >= DB_FLUSH_EVERY_M
           THEN db_tasks' = Append(db_tasks, dbb) /\ db_buf' = <<>>
           ELSE db_tasks' = db_tasks /\ db_buf' = dbb
        /\ db_failed' = db_failed
        /\ p_pc' = "check"

\* anext(stream) returned a chunk whose delta.content is text; usage tells
\* whether the chunk carries usage.
ProducerChunk ==
    /\ p_pc = "next"
    /\ upstream_n < MaxUpstream
    /\ \E usage \in BOOLEAN :
        /\ final_usage' = (final_usage \/ usage)
        /\ upstream_n' = upstream_n + 1
        /\ text_n' = text_n + 1
        /\ Accumulate(ChunkText(text_n + 1))
    /\ UNCHANGED << status, p_cancelled, read_cancelled >>
    /\ UNCHANGED << cache_vars, db_vars, emitter_vars, stop_vars, replayer_vars,
                    frames >>

\* the length of a long upstream: enough chunks for two partial DB writes
MaxLongUpstream == 2 * DB_FLUSH_EVERY_M

\* anext(stream) of a long upstream returned one more chunk with text.
ProducerChunkLong ==
    /\ p_pc = "next"
    /\ upstream_n >= MaxUpstream
    /\ upstream_n < MaxLongUpstream
    /\ upstream_n' = upstream_n + 1
    /\ text_n' = text_n + 1
    /\ Accumulate(ChunkText(text_n + 1))
    /\ UNCHANGED << final_usage, status, p_cancelled, read_cancelled >>
    /\ UNCHANGED << cache_vars, db_vars, emitter_vars, stop_vars, replayer_vars,
                    frames >>

\* anext(stream) returned a chunk whose delta.content is one of OtherTexts.
ProducerChunkText ==
    /\ p_pc = "next"
    /\ upstream_n < MaxUpstream
    /\ \E text \in OtherTexts : Accumulate(text)
    /\ upstream_n' = upstream_n + 1
    /\ UNCHANGED << final_usage, status, text_n, p_cancelled, read_cancelled >>
    /\ UNCHANGED << cache_vars, db_vars, emitter_vars, stop_vars, replayer_vars,
                    frames >>

\* anext(stream) returned a chunk without choices[0].delta (extract_chunk_text
\* gives None) that carries usage: usage is captured and the loop continues.
\* (Such a chunk without usage, or after usage was captured, changes nothing.)
ProducerChunkNoText ==
    /\ p_pc = "next"
    /\ ~final_usage
    /\ final_usage' = TRUE
    /\ UNCHANGED << p_pc, redis_buf, db_buf, all_chunks, status, upstream_n, text_n,
                    p_cancelled, read_cancelled >>
    /\ UNCHANGED << channel_vars, task_vars, cache_vars, db_vars, emitter_vars,
                    stop_vars, replayer_vars, frames >>

\* except asyncio.TimeoutError in the loop: text = HEARTBEAT_PLACEHOLDER
StallText == HEARTBEAT_PLACEHOLDER

\* wait_for(anext(stream), timeout=ALIVE_INTERVAL_S) timed out: wait_for
\* cancels the pending anext(stream) and raises TimeoutError; the heartbeat is
\* the chunk.  Whether the stream still yields chunks after the cancelled
\* read is the stream's matter: every upstream event stays possible.
ProducerStall ==
    /\ p_pc = "next"
    /\ upstream_n < MaxUpstream
    /\ upstream_n' = upstream_n + 1
    /\ Accumulate(StallText)
    /\ UNCHANGED << final_usage, status, text_n, p_cancelled >>
    /\ read_cancelled' = TRUE
    /\ UNCHANGED << cache_vars, db_vars, emitter_vars, stop_vars, replayer_vars,
                    frames >>

\* StopAsyncIteration: break, finally block.
ProducerEndOfStream ==
    /\ p_pc = "next"
    /\ EnterFinally(status, all_chunks, queue, enqueued)
    /\ UNCHANGED << final_usage, upstream_n, text_n, p_cancelled, read_cancelled >>
    /\ UNCHANGED << task_vars, cache_vars, db_vars, emitter_vars, stop_vars,
                    replayer_vars, frames >>

\* anext(stream) raised.
ProducerUpstreamError ==
    /\ p_pc = "next"
    /\ FailThenFinally
    /\ UNCHANGED << final_usage, upstream_n, text_n, p_cancelled, read_cancelled >>
    /\ UNCHANGED << task_vars, cache_vars, db_vars, emitter_vars, stop_vars,
                    replayer_vars, frames >>

\* asyncio.timeout(TOTAL_RESPONSE_TIMEOUT_S) fired while the Producer was
\* suspended inside the block (awaiting the next chunk or the status read).
ProducerTotalTimeout ==
    /\ p_pc \in {"next", "check"}
    /\ FailThenFinally
    /\ UNCHANGED << final_usage, upstream_n, text_n, p_cancelled, read_cancelled >>
    /\ UNCHANGED << task_vars, cache_vars, db_vars, emitter_vars, stop_vars,
                    replayer_vars, frames >>

\* check_cancellation: the Status Store, or Chat.status when the cache raises
check_cancellation ==
    IF cache_up THEN status_store = INTERRUPTED ELSE chat_status = INTERRUPTED

\* The status read of check_cancellation returned.
ProducerCheck ==
    /\ p_pc = "check"
    /\ IF check_cancellation
       THEN EnterFinally(INTERRUPTED,
                         Append(all_chunks, INTERRUPTED_PLACEHOLDER),
                         Append(queue, INTERRUPTED_PLACEHOLDER),
                         Append(enqueued, INTERRUPTED_PLACEHOLDER))
       ELSE /\ p_pc' = "next"
            /\ UNCHANGED << redis_buf, db_buf, all_chunks, status, channel_vars >>
    /\ UNCHANGED << final_usage, upstream_n, text_n, p_cancelled, read_cancelled >>
    /\ UNCHANGED << task_vars, cache_vars, db_vars, emitter_vars, stop_vars,
                    replayer_vars, frames >>

\* flush_to_redis: the pipeline (RPUSH of every item, EXPIRE) executes as one
\* transaction; when it raises the items are dropped.
flush_to_redis(items) ==
    IF cache_up THEN buffer \o items ELSE buffer

\* the lifetimes << status key, buffer key >> after flush_to_redis(items):
\* the pipeline's only EXPIRE names buffer_key; an empty list returns before
\* the pipeline
ExpireAfterFlush(items, ttl) ==
    IF cache_up /\ items # <<>> THEN << ttl[1], REDIS_TTL_S >> ELSE ttl

\* a flush_to_redis that lets the exception of its pipeline out
AfterFlushUncaught(redis_ok) == IF redis_ok THEN "fin_db" ELSE "raised"

\* where the finally block goes after `await flush_to_redis(redis_buf)`: the
\* try/except of flush_to_redis logs the exception of the pipeline and
\* returns, so the block goes on whether or not the cache answered
AfterFlush(redis_ok) == "fin_db"

\* The final flush_to_redis returned; redis_buf is cleared and the final
\* flush_to_db awaits its UPDATE.
ProducerFinalRedis ==
    /\ p_pc = "fin_redis"
    /\ buffer' = flush_to_redis(redis_buf)
    /\ LET ttl == ExpireAfterFlush(redis_buf, << status_ttl, buffer_ttl >>)
       IN  status_ttl' = ttl[1] /\ buffer_ttl' = ttl[2]
    /\ redis_buf' = <<>>
    /\ p_pc' = AfterFlush(cache_up)
    /\ UNCHANGED << db_buf, all_chunks, final_usage, status, upstream_n, text_n,
                    p_cancelled, read_cancelled >>
    /\ UNCHANGED << cache_up, status_store >>
    /\ UNCHANGED << channel_vars, task_vars, db_vars, emitter_vars, stop_vars,
                    replayer_vars, frames >>

\* flush_to_db(all_chunks, final=True): the cleaned response; the usage
\* counters and the status are among the values only when usage was captured.
ProducerFinalDb ==
    /\ p_pc = "fin_db"
    /\ llm_response' = clean_response(Join(all_chunks))
    /\ chat_usage' = (chat_usage \/ final_usage)
    /\ chat_status' = IF final_usage THEN status ELSE chat_status
    /\ db_final' = TRUE
    /\ p_pc' = "fin_status"
    /\ UNCHANGED << redis_buf, db_buf, all_chunks, final_usage, status, upstream_n,
                    text_n, p_cancelled, read_cancelled >>
    /\ UNCHANGED << channel_vars, task_vars, cache_vars, emitter_vars, stop_vars,
                    replayer_vars, frames >>

\* set_status(redis, chat_uuid_str, status) returned, or raised out of the
\* finally block when the cache is down: the Producer task is over.
ProducerFinalStatus ==
    /\ p_pc = "fin_status"
    /\ IF cache_up
       THEN status_store' = status /\ status_ttl' = REDIS_TTL_S /\ p_pc' = "done"
       ELSE UNCHANGED << status_store, status_ttl >> /\ p_pc' = "raised"
    /\ UNCHANGED << redis_buf, db_buf, all_chunks, final_usage, status, upstream_n,
                    text_n, p_cancelled, read_cancelled >>
    /\ UNCHANGED << cache_up, buffer, buffer_ttl >>
    /\ UNCHANGED << channel_vars, task_vars, db_vars, emitter_vars, stop_vars,
                    replayer_vars, frames >>

ProducerOver == p_pc \in {"done", "raised"}

\* A tick of the cache's clock while the chat is served: a key that reaches
\* the end of its lifetime is deleted.
CacheTimePasses ==
    /\ status_ttl > 0 \/ buffer_ttl > 0
    /\ status_ttl' = IF status_ttl > 0 THEN status_ttl - 1 ELSE 0
    /\ buffer_ttl' = IF buffer_ttl > 0 THEN buffer_ttl - 1 ELSE 0
    /\ status_store' = IF status_ttl' = 0 THEN "none" ELSE status_store
    /\ buffer' = IF buffer_ttl' = 0 THEN <<>> ELSE buffer
    /\ UNCHANGED cache_up
    /\ UNCHANGED << producer_vars, channel_vars, task_vars, db_vars, emitter_vars,
                    stop_vars, replayer_vars, frames >>

(* ---------------------------------------------------------------------- *)
(* Fire-and-forget flush tasks                                             *)
(* ---------------------------------------------------------------------- *)

\* The pipeline of a background flush_to_redis task executes.  Each flush
\* takes its own connection from the pool, so the pipelines of pending tasks
\* reach the cache in any order, also after the final flush.
BackgroundRedisFlush ==
    /\ \E i \in 1..Len(redis_tasks) :
        /\ buffer' = flush_to_redis(redis_tasks[i])
        /\ LET ttl == ExpireAfterFlush(redis_tasks[i], << status_ttl, buffer_ttl >>)
           IN  status_ttl' = ttl[1] /\ buffer_ttl' = ttl[2]
        /\ redis_tasks' = RemoveAt(redis_tasks, i)
    /\ UNCHANGED << db_tasks, db_failed, cache_up, status_store >>
    /\ UNCHANGED << producer_vars, channel_vars, db_vars, emitter_vars, stop_vars,
                    replayer_vars, frames >>

\* The UPDATE of a background flush_to_db(snapshot, final=False) commits: the
\* raw join of the snapshot.
BackgroundDbFlush ==
    /\ \E i \in 1..Len(db_tasks) :
        /\ llm_response' = Join(db_tasks[i])
        /\ db_tasks' = RemoveAt(db_tasks, i)
    /\ UNCHANGED << redis_tasks, db_failed, chat_status, chat_usage, db_final >>
    /\ UNCHANGED << producer_vars, channel_vars, cache_vars, emitter_vars, stop_vars,
                    replayer_vars, frames >>

\* The UPDATE of a background flush_to_db(snapshot, final=False) raises: the
\* task ends with the exception, which nothing awaits; the row is not
\* written.
BackgroundDbFlushFails ==
    /\ \E i \in 1..Len(db_tasks) : db_tasks' = RemoveAt(db_tasks, i)
    /\ db_failed' = TRUE
    /\ UNCHANGED redis_tasks
    /\ UNCHANGED << producer_vars, channel_vars, cache_vars, db_vars, emitter_vars,
                    stop_vars, replayer_vars, frames >>

\* The cache becomes unavailable: from now on its operations raise.
CacheDown ==
    /\ cache_up
    /\ cache_up' = FALSE
    /\ UNCHANGED << status_store, buffer, status_ttl, buffer_ttl >>
    /\ UNCHANGED << producer_vars, channel_vars, task_vars, db_vars, emitter_vars,
                    stop_vars, replayer_vars, frames >>

(* ---------------------------------------------------------------------- *)
(* SSE Emitter (stream_generator)                                          *)
(* ---------------------------------------------------------------------- *)

InitFrame == [event |-> "init"]
PingFrame == [event |-> "ping"]
\* the text of a chunk frame is kept as its sequence of characters
ChunkFrame(id, text) == [event |-> "chunk", id |-> id, text |-> text]
TerminalFrame(id, event, data) == [event |-> event, id |-> id, data |-> data]

\* a mapping that answers every terminal sentinel with done/[DONE]
SentinelFrameAlwaysDone(id, chunk) == TerminalFrame(id, "done", "[DONE]")

\* the frame stream_generator yields for a terminal sentinel
SentinelFrame(id, chunk) ==
    IF chunk = DONE_PLACEHOLDER THEN TerminalFrame(id, "done", "[DONE]")
    ELSE IF chunk = FAILED_PLACEHOLDER THEN TerminalFrame(id, "failed", "[FAILED]")
    ELSE TerminalFrame(id, "done", "[INTERRUPT]")

\* The first frame: id of the chat, event init.
EmitterInit ==
    /\ e_pc = "start"
    /\ frames' = Append(frames, InitFrame)
    /\ e_pc' = "loop"
    /\ UNCHANGED << chunk_idx, e_pending, e_disconnected >>
    /\ UNCHANGED << producer_vars, channel_vars, task_vars, cache_vars, db_vars,
                    stop_vars, replayer_vars >>

\* a loop that lacks the break after a terminal frame
AfterTerminalFrameNoBreak == "loop"

\* where the loop of stream_generator goes after yielding a terminal frame
\* (break, then the finally block)
AfterTerminalFrame == "finally"

\* queue.get returned a chunk; the generator runs up to its next yield.  A
\* terminal sentinel is followed by break and the finally block, which awaits
\* the shielded Producer task.
EmitterRead ==
    /\ e_pc = "loop"
    /\ queue # <<>>
    /\ LET chunk == Head(queue)
       IN  /\ queue' = Tail(queue)
           /\ IF chunk = HEARTBEAT_PLACEHOLDER
              THEN /\ frames' = Append(frames, PingFrame)
                   /\ e_pending' = chunk
                   /\ chunk_idx' = chunk_idx
                   /\ e_pc' = "after_ping"
              ELSE IF chunk \in TerminalSentinels
              THEN /\ frames' = Append(frames, SentinelFrame(chunk_idx, chunk))
                   /\ e_pending' = "none"
                   /\ chunk_idx' = chunk_idx
                   /\ e_pc' = AfterTerminalFrame
              ELSE /\ frames' = Append(frames, ChunkFrame(chunk_idx, Chars(chunk)))
                   /\ e_pending' = "none"
                   /\ chunk_idx' = chunk_idx + 1
                   /\ e_pc' = "loop"
    /\ UNCHANGED << enqueued, e_disconnected >>
    /\ UNCHANGED << producer_vars, task_vars, cache_vars, db_vars, stop_vars,
                    replayer_vars >>

\* Resumed after the comment line of a heartbeat: the branch of the heartbeat
\* has no continue, so the generator goes on to the chunk frame of line 337.
EmitterAfterPing ==
    /\ e_pc = "after_ping"
    /\ frames' = Append(frames, ChunkFrame(chunk_idx, Chars(e_pending)))
    /\ chunk_idx' = chunk_idx + 1
    /\ e_pending' = "none"
    /\ e_pc' = "loop"
    /\ UNCHANGED e_disconnected
    /\ UNCHANGED << producer_vars, channel_vars, task_vars, cache_vars, db_vars,
                    stop_vars, replayer_vars >>

\* wait_for(queue.get(), ALIVE_INTERVAL_S) timed out on the empty queue: the
\* TimeoutError is not handled, the finally block runs.
EmitterReadTimeout ==
    /\ e_pc = "loop"
    /\ queue = <<>>
    /\ e_pc' = "finally"
    /\ UNCHANGED << chunk_idx, e_pending, frames, e_disconnected >>
    /\ UNCHANGED << producer_vars, channel_vars, task_vars, cache_vars, db_vars,
                    stop_vars, replayer_vars >>

\* The client disconnects while the generator is suspended in the loop (at
\* queue.get or at a yield): CancelledError or GeneratorExit, then the finally
\* block.
EmitterDisconnect ==
    /\ e_pc \in {"loop", "after_ping"}
    /\ e_pc' = "finally"
    /\ e_pending' = "none"
    /\ e_disconnected' = TRUE
    /\ UNCHANGED << chunk_idx, frames >>
    /\ UNCHANGED << producer_vars, channel_vars, task_vars, cache_vars, db_vars,
                    stop_vars, replayer_vars >>

\* "await producer_task" without the shield: cancelling the await cancels the
\* Producer task
AwaitUnshielded(cancelled) == TRUE

\* What a cancellation of "await asyncio.shield(producer_task)" does to the
\* Producer task's cancelled flag: the shield absorbs it.
shield(cancelled) == cancelled

\* The generator is cancelled while it awaits the shielded Producer task in
\* the finally block: CancelledError is caught and passed.
EmitterCancelInFinally ==
    /\ e_pc = "finally"
    /\ ~(p_pc \in {"done", "raised"})
    /\ e_pc' = "done"
    /\ e_disconnected' = TRUE
    /\ p_cancelled' = shield(p_cancelled)
    /\ UNCHANGED << chunk_idx, e_pending, frames >>
    /\ UNCHANGED << p_pc, redis_buf, db_buf, all_chunks, final_usage, status,
                    upstream_n, text_n, read_cancelled >>
    /\ UNCHANGED << channel_vars, task_vars, cache_vars, db_vars, stop_vars,
                    replayer_vars >>

\* The awaited Producer task is over: the generator ends.
EmitterJoin ==
    /\ e_pc = "finally"
    /\ p_pc \in {"done", "raised"}
    /\ e_pc' = "done"
    /\ UNCHANGED << chunk_idx, e_pending, frames, e_disconnected >>
    /\ UNCHANGED << producer_vars, channel_vars, task_vars, cache_vars, db_vars,
                    stop_vars, replayer_vars >>

(* ---------------------------------------------------------------------- *)
(* Stop endpoint (stop_chat)                                               *)
(* ---------------------------------------------------------------------- *)

\* get_status returned (the key exists from start_chat on): a status other
\* than active ends the call; when the cache raises the call ends with an
\* error.
\* a stop_chat that goes on to its writes whatever status it has read
StopAlwaysProceeds(st) == "proceed"

\* a stop_chat that lacks the 404 answer for a chat without an entry
StopProceedsWithoutEntry(st) ==
    IF st # ACTIVE /\ st # "none" THEN "200" ELSE "proceed"

\* what stop_chat does with the status it has read: 404 without an entry, the
\* 200 acknowledgement for a status other than active, else it goes on
StopOutcome(st) ==
    IF st = "none" THEN "404" ELSE IF st # ACTIVE THEN "200" ELSE "proceed"

StopRead ==
    /\ s_pc = "idle"
    /\ LET outcome == IF cache_up THEN StopOutcome(status_store) ELSE "500"
       IN  /\ s_pc' = IF outcome = "proceed" THEN "set" ELSE "idle"
           /\ s_response' = IF outcome = "proceed" THEN s_response ELSE outcome
    /\ UNCHANGED stop_wrote
    /\ UNCHANGED << producer_vars, channel_vars, task_vars, cache_vars, db_vars,
                    emitter_vars, replayer_vars, frames >>

\* set_status(redis, chat_uuid_str, ChatStatus.INTERRUPTED)
StopSet ==
    /\ s_pc = "set"
    /\ IF cache_up
       THEN /\ status_store' = INTERRUPTED
            /\ status_ttl' = REDIS_TTL_S
            /\ stop_wrote' = IF p_pc \in {"next", "check"} THEN "loop" ELSE "other"
            /\ s_pc' = "mirror"
            /\ s_response' = s_response
       ELSE /\ UNCHANGED << status_store, status_ttl >>
            /\ stop_wrote' = stop_wrote
            /\ s_pc' = "idle"
            /\ s_response' = "500"
    /\ UNCHANGED << cache_up, buffer, buffer_ttl >>
    /\ UNCHANGED << producer_vars, channel_vars, task_vars, db_vars, emitter_vars,
                    replayer_vars, frames >>

\* The Status Store key of the chat expires: REDIS_TTL_S has passed since its
\* last write, so no writer of the key is left.
StatusExpire ==
    /\ ProducerOver
    /\ s_pc = "idle"
    /\ cache_up
    /\ status_store # "none"
    /\ status_store' = "none"
    /\ status_ttl' = 0
    /\ UNCHANGED << cache_up, buffer, buffer_ttl >>
    /\ UNCHANGED << producer_vars, channel_vars, task_vars, db_vars, emitter_vars,
                    stop_vars, replayer_vars, frames >>

\* the row is selected, its status set to interrupted and committed
StopMirror ==
    /\ s_pc = "mirror"
    /\ chat_status' = INTERRUPTED
    /\ s_pc' = "idle"
    /\ s_response' = "200"
    /\ UNCHANGED << stop_wrote, llm_response, chat_usage, db_final >>
    /\ UNCHANGED << producer_vars, channel_vars, task_vars, cache_vars, emitter_vars,
                    replayer_vars, frames >>

(* ---------------------------------------------------------------------- *)
(* Reconnect Replayer (reconnect_stream)                                   *)
(* ---------------------------------------------------------------------- *)

\* LRANGE key start -1 of the cache: a negative start counts from the end of
\* the list (and is clamped to its first entry); indices are 0-based.
LRange(list, start) ==
    LET from == IF start >= 0 THEN start
                ELSE IF Len(list) + start >= 0 THEN Len(list) + start ELSE 0
    IN  SubSeq(list, from + 1, Len(list))

\* the initial value of sent_so_far
InitialSentSoFar(k) == IF k # 0 THEN k ELSE 0 - 1

\* the terminal frame for an observed terminal status
StatusFrame(id, st) ==
    IF st = COMPLETED THEN TerminalFrame(id, "done", "[DONE]")
    ELSE IF st = INTERRUPTED THEN TerminalFrame(id, "done", "[INTERRUPT]")
    ELSE TerminalFrame(id, "failed", "[FAILED]")

\* The chunk frames of one cache poll: sent_so_far advances by one for every
\* entry of the slice, the sentinels are skipped, a kept entry is sent with
\* the advanced sent_so_far as its id.
RECURSIVE SliceFrames(_, _)
SliceFrames(chunks, sent) ==
    IF chunks = <<>> THEN <<>>
    ELSE LET rest == SliceFrames(Tail(chunks), sent + 1)
         IN  IF Head(chunks) \in Sentinels
             THEN rest
             ELSE <<ChunkFrame(sent + 1, Chars(Head(chunks)))>> \o rest

\* a start_chat that streams whatever the row says
ReconnectAlwaysStreams(known, st) == "stream"

\* the branch of start_chat for a request that carries chat_uuid: 404 for an
\* unknown uuid, the event stream of reconnect_stream for an active chat, else
\* the JSON body
ReconnectOutcome(known, st) ==
    IF ~known THEN "404" ELSE IF st = ACTIVE THEN "stream" ELSE "json"

\* start_chat for a request that carries chat_uuid (of this chat, or one that
\* no row has): the row is read and the request answered.
StartChatReconnect ==
    /\ r_pc = "idle"
    /\ \E known \in BOOLEAN :
        /\ r_pc' = ReconnectOutcome(known, chat_status)
        /\ r_json' = IF r_pc' = "json"
                     THEN [text |-> llm_response, status |-> chat_status]
                     ELSE r_json
    /\ UNCHANGED << last_event_id, sent_so_far, use_redis, db_content_sent,
                    r_cache_failed, r_now >>
    /\ UNCHANGED << producer_vars, channel_vars, task_vars, cache_vars, db_vars,
                    emitter_vars, stop_vars, frames >>

\* reconnect_stream is started for a request with Last-Event-ID k on the chat: the init frame,
\* the read of the row, the time gate (expired: the deadline created_at +
\* TOTAL_RESPONSE_TIMEOUT_S has passed) and the set-up of the loop.  The
\* generator ends "refused" when it returns before the loop.
ReplayerEntry ==
    /\ r_pc = "stream"
    /\ \E k \in 0..MaxLastEventId, expired \in BOOLEAN :
        /\ last_event_id' = k
        /\ IF chat_status # ACTIVE
           THEN /\ frames' = << InitFrame,
                                [event |-> chat_status, data |-> chat_status] >>
                /\ r_pc' = "refused"
                /\ sent_so_far' = sent_so_far
           ELSE IF expired
           THEN /\ frames' = << InitFrame, [event |-> "failed", data |-> "[FAILED]"] >>
                /\ r_pc' = "refused"
                /\ sent_so_far' = sent_so_far
           ELSE /\ frames' = << InitFrame >>
                /\ r_pc' = "poll"
                /\ sent_so_far' = InitialSentSoFar(k)
    /\ UNCHANGED << r_json, use_redis, db_content_sent, r_cache_failed, r_now >>
    /\ UNCHANGED << producer_vars, channel_vars, task_vars, cache_vars, db_vars,
                    emitter_vars, stop_vars >>

\* a replayer that keeps trusting the Status Store after the cache has raised
StatusFromCacheOnly(redis_ok) == status_store

\* the status an iteration observes: the Status Store's from the pipeline, or
\* Chat.status from _fetch_db once the cache has raised
ObservedStatus(redis_ok) == IF redis_ok THEN status_store ELSE chat_status

\* One iteration of the polling loop before the deadline: the cache pipeline
\* (status and slice in one round trip) or, once it has raised, the read of
\* the row; then the terminal frame or the sleep.
PollIteration ==
    /\ r_pc = "poll"
    /\ LET redis_ok == use_redis /\ cache_up
           new_chunks == IF redis_ok THEN LRange(buffer, sent_so_far) ELSE <<>>
           redis_frames == SliceFrames(new_chunks, sent_so_far)
           sent == sent_so_far + Len(new_chunks)
           observed == ObservedStatus(redis_ok)
           new_content == IF redis_ok THEN <<>>
                          ELSE SubSeq(llm_response, db_content_sent + 1, Len(llm_response))
           db_frames == IF new_content # <<>> THEN <<ChunkFrame(sent, new_content)>>
                        ELSE <<>>
           sent_frames == frames \o redis_frames \o db_frames
       IN  /\ use_redis' = redis_ok
           /\ r_cache_failed' = (r_cache_failed \/ (use_redis /\ ~cache_up))
           /\ sent_so_far' = sent
           /\ db_content_sent' = db_content_sent + Len(new_content)
           /\ IF observed \in TerminalStatuses
              THEN /\ frames' = Append(sent_frames, StatusFrame(sent, observed))
                   /\ r_pc' = "done"
              ELSE /\ frames' = sent_frames
                   /\ r_pc' = "poll"
    /\ UNCHANGED << r_json, last_event_id >>
    /\ UNCHANGED << producer_vars, channel_vars, task_vars, cache_vars, db_vars,
                    emitter_vars, stop_vars >>

\* an iteration, its sleep left to the scheduling of the actions
ReplayerPoll == PollIteration /\ UNCHANGED r_now

\* The deadline passed before a terminal status was observed.
ReplayerDeadline ==
    /\ r_pc = "poll"
    /\ frames' = Append(frames, TerminalFrame(sent_so_far, "failed", "[FAILED]"))
    /\ r_pc' = "done"
    /\ UNCHANGED << r_json, last_event_id, sent_so_far, use_redis, db_content_sent,
                    r_cache_failed, r_now >>
    /\ UNCHANGED << producer_vars, channel_vars, task_vars, cache_vars, db_vars,
                    emitter_vars, stop_vars >>

(* reconnect_stream against the clock: the reads take no time, the sleeps do *)

\* a sleep of the whole poll period
SleepWholeInterval(now, interval) == now + interval

\* the clock after asyncio.sleep(min(interval, max(time_left, 0)))
SleepUntil(now, interval) ==
    LET time_left == TOTAL_RESPONSE_TIMEOUT_S - now
        floor == IF time_left > 0 THEN time_left ELSE 0
    IN  now + (IF interval < floor THEN interval ELSE floor)

\* time passes before the reconnection request is served
TimePasses ==
    /\ r_pc \in {"idle", "stream"}
    /\ r_now < TOTAL_RESPONSE_TIMEOUT_S
    /\ r_now' = r_now + 1
    /\ UNCHANGED << r_pc, r_json, last_event_id, sent_so_far, use_redis,
                    db_content_sent, r_cache_failed >>
    /\ UNCHANGED << producer_vars, channel_vars, task_vars, cache_vars, db_vars,
                    emitter_vars, stop_vars, frames >>

\* the entry with its time gate: remaining = deadline - now, and the loop is
\* set up only if remaining > 0
ReplayerTimedEntry ==
    /\ ReplayerEntry
    /\ chat_status = ACTIVE => (r_pc' = "poll" <=> r_now < TOTAL_RESPONSE_TIMEOUT_S)

\* an iteration that the loop condition admits (now < deadline), with its sleep
ReplayerTimedPoll ==
    /\ r_now < TOTAL_RESPONSE_TIMEOUT_S
    /\ PollIteration
    /\ r_now' = IF r_pc' = "done" THEN r_now
                ELSE SleepUntil(r_now, IF use_redis' THEN RECONNECT_POLL_INTERVAL_REDIS_S
                                       ELSE RECONNECT_POLL_INTERVAL_DB_S)

\* an iteration in which every read raises: _fetch_redis (if still in use)
\* and then _fetch_db; nothing is sent, status stays None, the loop sleeps the
\* DB period
ReplayerTimedPollFails ==
    /\ r_pc = "poll"
    /\ r_now < TOTAL_RESPONSE_TIMEOUT_S
    /\ use_redis' = FALSE
    /\ r_cache_failed' = (r_cache_failed \/ use_redis)
    /\ r_now' = SleepUntil(r_now, RECONNECT_POLL_INTERVAL_DB_S)
    /\ UNCHANGED << r_pc, r_json, last_event_id, sent_so_far, db_content_sent, frames >>
    /\ UNCHANGED << producer_vars, channel_vars, task_vars, cache_vars, db_vars,
                    emitter_vars, stop_vars >>

\* the loop condition fails (now >= deadline): the failed frame
ReplayerTimedDeadline ==
    /\ r_now >= TOTAL_RESPONSE_TIMEOUT_S
    /\ ReplayerDeadline

ProducerNext ==
    \/ ProducerStartOk
    \/ ProducerStartNull
    \/ ProducerChunk
    \/ ProducerChunkNoText
    \/ ProducerStall
    \/ ProducerEndOfStream
    \/ ProducerUpstreamError
    \/ ProducerTotalTimeout
    \/ ProducerCheck
    \/ ProducerFinalRedis
    \/ ProducerFinalDb
    \/ ProducerFinalStatus

TaskNext == BackgroundRedisFlush \/ BackgroundDbFlush

EmitterNext ==
    \/ EmitterInit
    \/ EmitterRead
    \/ EmitterAfterPing
    \/ EmitterReadTimeout
    \/ EmitterDisconnect
    \/ EmitterCancelInFinally
    \/ EmitterJoin

StopNext == StopRead \/ StopSet \/ StopMirror

ReplayerNext == StartChatReconnect \/ ReplayerEntry \/ ReplayerPoll \/ ReplayerDeadline

\* the chat with its original connection
Next == ProducerNext \/ TaskNext \/ CacheDown \/ EmitterNext \/ StopNext

\* the chat served to a reconnecting client
NextReconnect == ProducerNext \/ TaskNext \/ CacheDown \/ StopNext \/ ReplayerNext

\* the chat served to a client on one response stream: the original one, or
\* the stream of a reconnection while the original one is not read
NextClient ==
    \/ ProducerNext
    \/ TaskNext
    \/ CacheDown
    \/ StopNext
    \/ (r_pc = "idle" /\ EmitterNext)
    \/ (e_pc = "start" /\ ReplayerNext)

\* the Producer, its tasks and the stop endpoint, fed with every kind of
\* upstream text; no client is attached
NextText == ProducerNext \/ ProducerChunkText \/ TaskNext \/ StopNext

Spec == Init /\ [][Next]_vars

SpecText == Init /\ [][NextText]_vars

\* the chat and the stop endpoint over the life of the Status Store key
NextStop ==
    \/ StartChatSave
    \/ StartChatSetStatus
    \/ ProducerNext
    \/ TaskNext
    \/ CacheDown
    \/ StopNext
    \/ StatusExpire

SpecStop == InitRequest /\ [][NextStop]_vars

\* the Producer, its tasks and the stop endpoint when the cache and the
\* partial Chat Record writes can fail; no client is attached
NextFaults ==
    \/ ProducerNext
    \/ TaskNext
    \/ BackgroundDbFlushFails
    \/ CacheDown
    \/ StopNext

SpecFaults == Init /\ [][NextFaults]_vars

\* the Producer and its tasks on a long upstream; no client is attached
NextLong == ProducerNext \/ ProducerChunkLong \/ TaskNext

SpecLong == Init /\ [][NextLong]_vars

\* The state when stop_chat has written interrupted to the Status Store
\* before the Producer's completion_call has returned; the DB mirror of
\* stop_chat is still to come.
InitStopped ==
    /\ p_pc = "start"
    /\ redis_buf = <<>>
    /\ db_buf = <<>>
    /\ all_chunks = <<>>
    /\ final_usage = FALSE
    /\ status = COMPLETED
    /\ upstream_n = 0
    /\ text_n = 0
    /\ p_cancelled = FALSE
    /\ read_cancelled = FALSE
    /\ queue = <<>>
    /\ enqueued = <<>>
    /\ redis_tasks = <<>>
    /\ db_tasks = <<>>
    /\ db_failed = FALSE
    /\ cache_up = TRUE
    /\ status_store = INTERRUPTED
    /\ buffer = <<>>
    /\ status_ttl = REDIS_TTL_S
    /\ buffer_ttl = 0
    /\ chat_status = ACTIVE
    /\ llm_response = <<>>
    /\ chat_usage = FALSE
    /\ db_final = FALSE
    /\ e_pc = "start"
    /\ chunk_idx = 0
    /\ e_pending = "none"
    /\ e_disconnected = FALSE
    /\ s_pc = "mirror"
    /\ stop_wrote = "other"
    /\ s_response = "none"
    /\ r_pc = "idle"
    /\ r_json = [text |-> <<>>, status |-> "none"]
    /\ last_event_id = 0
    /\ sent_so_far = 0
    /\ use_redis = TRUE
    /\ db_content_sent = 0
    /\ r_cache_failed = FALSE
    /\ r_now = 0
    /\ frames = <<>>

\* the Producer and its tasks after that write, while the cache can fail and
\* stop_chat ends its call; no client is attached
NextInterrupt == ProducerNext \/ TaskNext \/ CacheDown \/ StopMirror

SpecInterrupt == InitStopped /\ [][NextInterrupt]_vars

\* the chat served on its original connection and, once stream_generator has
\* ended, to the same client on a reconnection
NextResume ==
    \/ ProducerNext
    \/ TaskNext
    \/ (r_pc = "idle" /\ EmitterNext)
    \/ (e_pc = "done" /\ ReplayerNext)

SpecResume == Init /\ [][NextResume]_vars

\* the items the enumerated accumulations are made of: a text, whitespace,
\* the two halves of a placeholder, and two placeholders
CleanPieces == {"t1", " ", "<:<do", "ne>:>", HEARTBEAT_PLACEHOLDER, DONE_PLACEHOLDER}

RawInputs == UNION {[1..n -> CleanPieces] : n \in 0..MaxPieces}

\* The Producer before flush_to_db(all_chunks, final=True), for every
\* accumulation of at most MaxPieces items: the argument "".join(all_chunks)
\* of clean_response ranges over the raw strings these items spell.
InitClean ==
    /\ p_pc = "fin_db"
    /\ redis_buf = <<>>
    /\ db_buf = <<>>
    /\ all_chunks \in RawInputs
    /\ final_usage = FALSE
    /\ status = COMPLETED
    /\ upstream_n = 0
    /\ text_n = 0
    /\ p_cancelled = FALSE
    /\ read_cancelled = FALSE
    /\ queue = all_chunks
    /\ enqueued = all_chunks
    /\ redis_tasks = <<>>
    /\ db_tasks = <<>>
    /\ db_failed = FALSE
    /\ cache_up = TRUE
    /\ status_store = ACTIVE
    /\ buffer = <<>>
    /\ status_ttl = REDIS_TTL_S
    /\ buffer_ttl = 0
    /\ chat_status = ACTIVE
    /\ llm_response = <<>>
    /\ chat_usage = FALSE
    /\ db_final = FALSE
    /\ e_pc = "start"
    /\ chunk_idx = 0
    /\ e_pending = "none"
    /\ e_disconnected = FALSE
    /\ s_pc = "idle"
    /\ stop_wrote = "never"
    /\ s_response = "none"
    /\ r_pc = "idle"
    /\ r_json = [text |-> <<>>, status |-> "none"]
    /\ last_event_id = 0
    /\ sent_so_far = 0
    /\ use_redis = TRUE
    /\ db_content_sent = 0
    /\ r_cache_failed = FALSE
    /\ r_now = 0
    /\ frames = <<>>

\* clean_response applied by the final write, then the end of the Producer
NextClean == ProducerFinalDb \/ ProducerFinalStatus

SpecClean == InitClean /\ [][NextClean]_vars

\* the chat served to a reconnecting client against the clock; the reads of
\* reconnect_stream can fail
NextDeadline ==
    \/ ProducerNext
    \/ TaskNext
    \/ TimePasses
    \/ StartChatReconnect
    \/ ReplayerTimedEntry
    \/ ReplayerTimedPoll
    \/ ReplayerTimedPollFails
    \/ ReplayerTimedDeadline

SpecDeadline == Init /\ [][NextDeadline]_vars

\* the Producer and its flush tasks while the keys of the cache age
NextTtl ==
    \/ ProducerNext
    \/ TaskNext
    \/ CacheDown
    \/ CacheTimePasses

SpecTtl == Init /\ [][NextTtl]_vars

SpecReconnect == Init /\ [][NextReconnect]_vars

SpecClient == Init /\ [][NextClient]_vars

(* ---------------------------------------------------------------------- *)
(* Helpers of the properties                                               *)
(* ---------------------------------------------------------------------- *)

Last(s) == s[Len(s)]

\* the Producer is in or past its finally block
InFinally == p_pc \in {"fin_redis", "fin_db", "fin_status", "done", "raised"}

TerminalCount(items) == Len(SelectSeq(items, LAMBDA x : x \in TerminalSentinels))

\* the items before the first terminal sentinel
RECURSIVE BeforeTerminal(_)
BeforeTerminal(items) ==
    IF items = <<>> \/ Head(items) \in TerminalSentinels THEN <<>>
    ELSE <<Head(items)>> \o BeforeTerminal(Tail(items))

\* a is b with some of its entries left out
RECURSIVE IsSubseq(_, _)
IsSubseq(a, b) ==
    IF a = <<>> THEN TRUE
    ELSE IF b = <<>> THEN FALSE
    ELSE IF Head(a) = Head(b) THEN IsSubseq(Tail(a), Tail(b))
    ELSE IsSubseq(a, Tail(b))

IsTerminalFrame(f) == f.event \in {"done", "failed"}

\* the texts of the chunk frames, in order
RECURSIVE ChunkTexts(_)
ChunkTexts(fs) ==
    IF fs = <<>> THEN <<>>
    ELSE IF Head(fs).event = "chunk" THEN <<Head(fs).text>> \o ChunkTexts(Tail(fs))
    ELSE ChunkTexts(Tail(fs))

\* the texts of the non-sentinel entries of a list, in order
RECURSIVE EntryTexts(_)
EntryTexts(items) ==
    IF items = <<>> THEN <<>>
    ELSE IF Head(items) \in Sentinels THEN EntryTexts(Tail(items))
    ELSE <<Chars(Head(items))>> \o EntryTexts(Tail(items))

(* ---------------------------------------------------------------------- *)
(* Properties                                                              *)
(* ---------------------------------------------------------------------- *)

\* C7: on every exit path, the items the Producer enqueues on the local
\* channel (and records in all_chunks) hold exactly one terminal sentinel,
\* and it is the last item.
C7_ExactlyOneTerminalSentinel ==
    InFinally =>
        /\ TerminalCount(enqueued) = 1
        /\ Last(enqueued) \in TerminalSentinels
        /\ TerminalCount(all_chunks) = 1
        /\ Last(all_chunks) \in TerminalSentinels

\* C10: the entries of the Buffer are in the relative order in which they
\* were enqueued on the local channel, under every interleaving of the
\* background flush tasks and the final flush.
C10_BufferInChannelOrder == IsSubseq(buffer, enqueued)

\* C9: when no cache operation failed, after the Producer and all its flush
\* tasks have finished, the Buffer is every chunk enqueued before the terminal
\* sentinel, followed by exactly one terminal sentinel.
C9_BufferComplete ==
    (p_pc = "done" /\ redis_tasks = <<>> /\ cache_up) =>
        buffer = Append(BeforeTerminal(enqueued), TerminalOf(status))

\* C5: once the Producer has returned, Chat.status is terminal and equals the
\* Status Store value.
C5_StatusPersisted ==
    p_pc = "done" =>
        /\ chat_status \in TerminalStatuses
        /\ chat_status = status_store

\* C4: a terminal Status Store value and a terminal Chat.status never change.
C4_TerminalFrozen ==
    [][ /\ status_store \in TerminalStatuses => status_store' = status_store
        /\ chat_status \in TerminalStatuses => chat_status' = chat_status ]_vars

\* C6: if stop_chat wrote interrupted while the Producer was in its streaming
\* loop, the chat ends interrupted: sentinel, Status Store, Chat.status and the
\* terminal frame of a connected client.
C6_StopEndsInterrupted ==
    (stop_wrote = "loop" /\ p_pc = "done" /\ s_pc = "idle") =>
        /\ Last(enqueued) = INTERRUPTED_PLACEHOLDER
        /\ status_store = INTERRUPTED
        /\ chat_status = INTERRUPTED
        /\ (frames # <<>> /\ IsTerminalFrame(Last(frames)))
              => Last(frames).data = "[INTERRUPT]"

\* C8: a response stream (stream_generator's or reconnect_stream's) holds at
\* most one terminal event (done or failed), and no frame follows it.
C8_OneTerminalFrameLast ==
    \A i \in 1..Len(frames) : IsTerminalFrame(frames[i]) => i = Len(frames)

\* the Emitter has sent its terminal frame and left the loop while a second
\* sentinel is still on the channel
C8_Witness ==
    /\ r_pc = "idle"
    /\ e_pc \in {"finally", "done"}
    /\ Len(frames) > 1
    /\ IsTerminalFrame(Last(frames))
    /\ queue # <<>>

C1_ReplayForwardsEveryEntry ==
    (r_pc = "done" /\ cache_up /\ ProducerOver /\ redis_tasks = <<>>) =>
        ChunkTexts(frames) =
            EntryTexts(SubSeq(buffer, last_event_id + 1, Len(buffer)))

\* C11: the final Chat Record write comes after every partial DB write: once
\* it is made, no background partial write commits and llm_response is not
\* overwritten.
C11_FinalDbWriteLast ==
    [][db_final => (db_tasks' = db_tasks /\ llm_response' = llm_response)]_vars

\* the positions of raw that lie inside an occurrence of a sentinel literal
InLiteral(raw) ==
    {i \in 1..Len(raw) :
        \E j \in 1..Len(Placeholders) : \E k \in 1..i :
            MatchesAt(raw, k, Placeholders[j]) /\ i < k + Len(Placeholders[j])}

\* raw from position i on, without the positions in drop
RECURSIVE Without(_, _, _)
Without(raw, drop, i) ==
    IF i > Len(raw) THEN <<>>
    ELSE IF i \in drop THEN Without(raw, drop, i + 1)
    ELSE <<raw[i]>> \o Without(raw, drop, i + 1)

\* s from its first to its last character that is not whitespace
Trimmed(s) ==
    LET solid == {i \in 1..Len(s) : ~IsSpace(s[i])}
    IN  IF solid = {} THEN <<>>
        ELSE SubSeq(s, CHOOSE i \in solid : \A j \in solid : i <= j,
                       CHOOSE i \in solid : \A j \in solid : i >= j)

\* C12: the final DB write leaves in llm_response the in-order concatenation
\* of all_chunks with every sentinel literal removed and the surrounding
\* whitespace trimmed, on every exit path and for every upstream text.
C12_FinalResponseIsCleanedConcatenation ==
    [][(~db_final /\ db_final') =>
          llm_response' =
              LET raw == Join(all_chunks)
              IN  Trimmed(Without(raw, InLiteral(raw), 1))]_vars

\* the final write has just stored a response that had leading whitespace and
\* sentinels to lose
C12_Witness ==
    /\ p_pc = "fin_status"
    /\ db_final
    /\ db_tasks = <<>>
    /\ Head(all_chunks) = " "
    /\ llm_response = <<"t1">>
    /\ TerminalCount(all_chunks) = 2

\* C13: after the Producer has returned and its background tasks have
\* finished, llm_response holds no occurrence of a sentinel literal.
C13_NoSentinelInResponse ==
    (ProducerOver /\ db_tasks = <<>> /\ redis_tasks = <<>>) =>
        InLiteral(llm_response) = {}

\* the items stream_generator has read from the channel so far
Consumed == SubSeq(enqueued, 1, Len(enqueued) - Len(queue))

\* C14: a heartbeat read from the channel gives one comment line and nothing
\* else: no chunk frame carries the heartbeat literal, and chunk_idx counts
\* only the non-sentinel chunks read.
C14_HeartbeatIsCommentOnly ==
    /\ \A i \in 1..Len(frames) :
          frames[i].event = "chunk" => frames[i].text # Chars(HEARTBEAT_PLACEHOLDER)
    /\ chunk_idx = Len(EntryTexts(Consumed))

\* C15: when stream_generator has read n non-sentinel chunks and then a
\* terminal sentinel, it has sent the init frame, the n chunk frames with ids
\* 0..n-1 and the chunks' texts in channel order, one terminal frame mapped
\* from the sentinel, and it has left the loop.
C15_FramesOfPlainRun ==
    (/\ Consumed # <<>>
     /\ Last(Consumed) \in TerminalSentinels
     /\ \A i \in 1..Len(Consumed) : Consumed[i] # HEARTBEAT_PLACEHOLDER) =>
        LET n == Len(Consumed) - 1
            last == Last(Consumed)
        IN  /\ Len(frames) = n + 2
            /\ frames[1].event = "init"
            /\ \A i \in 1..n :
                  frames[i + 1] = [event |-> "chunk", id |-> i - 1,
                                   text |-> Chars(Consumed[i])]
            /\ frames[n + 2].event = (IF last = FAILED_PLACEHOLDER THEN "failed" ELSE "done")
            /\ frames[n + 2].data =
                  (CASE last = DONE_PLACEHOLDER -> "[DONE]"
                     [] last = FAILED_PLACEHOLDER -> "[FAILED]"
                     [] last = INTERRUPTED_PLACEHOLDER -> "[INTERRUPT]")
            /\ e_pc \in {"finally", "done"}

\* two chunks and the FAILED sentinel were read and the generator has ended
C15_Witness ==
    /\ Consumed = <<"t1", "t2", FAILED_PLACEHOLDER>>
    /\ Len(frames) = 4
    /\ e_pc = "done"
    /\ ~e_disconnected

\* C16: while the client stays connected, the Emitter of a chat whose Producer
\* reached terminal does not end before it has sent the terminal frame; a
\* channel read that yields nothing in time does not end the stream.
C16_ConnectedClientGetsTerminalFrame ==
    (e_pc = "done" /\ ~e_disconnected /\ ProducerOver) =>
        (frames # <<>> /\ IsTerminalFrame(Last(frames)))

\* the Producer's part of C17: a null handle, the overall deadline and an
\* upstream exception each leave status failed and FAILED as the last item
\* enqueued (for a null handle, the only item), and the Producer's write of
\* the Status Store then stores failed
C17_ProducerFails ==
    /\ [][(ProducerStartNull \/ ProducerTotalTimeout \/ ProducerUpstreamError) =>
            /\ status' = FAILED
            /\ Last(enqueued') = FAILED_PLACEHOLDER
            /\ Last(all_chunks') = FAILED_PLACEHOLDER
            /\ ProducerStartNull => enqueued' = <<FAILED_PLACEHOLDER>>]_vars
    /\ [][(status = FAILED /\ p_pc = "fin_status" /\ p_pc' = "done") =>
            status_store' = FAILED]_vars

\* C17: a null handle, a breach of the overall deadline or an upstream
\* exception ends the Producer with status failed (sentinel FAILED, Status
\* Store set to failed), and a client that stayed connected has failed/[FAILED]
\* as its last frame.
C17_FailureEndsFailed ==
    /\ C17_ProducerFails
    /\ []((status = FAILED /\ ProducerOver /\ e_pc = "done" /\ ~e_disconnected) =>
            /\ frames # <<>>
            /\ Last(frames).event = "failed"
            /\ Last(frames).data = "[FAILED]")

\* the chunk frames among the frames sent, in order
ChunkFrames == SelectSeq(frames, LAMBDA f : f.event = "chunk")

\* does the text of frame f hold the Buffer entry at (0-based) index i
Forwards(f, i) ==
    \E j \in 1..Len(f.text) : MatchesAt(f.text, j, Chars(buffer[i + 1]))

\* C18: in a reconnection with Last-Event-ID k, on the cache path and on the
\* DB-fallback path, the ids of the chunk frames are non-decreasing, none is
\* below k, and no token the Buffer holds at an index below k is forwarded.
C18_ReplayStartsAtK ==
    r_pc \in {"poll", "done"} =>
        /\ \A i \in 1..Len(ChunkFrames) :
              /\ ChunkFrames[i].id >= last_event_id
              /\ i > 1 => ChunkFrames[i].id >= ChunkFrames[i - 1].id
        /\ \A i \in 0..(last_event_id - 1) :
              (i < Len(buffer) /\ buffer[i + 1] \notin Sentinels) =>
                  \A n \in 1..Len(ChunkFrames) : ~Forwards(ChunkFrames[n], i)

\* the reconnection is in its loop or past it and has only used the cache
OnCachePath == r_pc \in {"poll", "done"} /\ use_redis /\ ~r_cache_failed

\* C19: on the cache path, the chunk frame that forwards the Buffer entry at
\* index i carries id i.
C19_FrameIdIsBufferIndex ==
    OnCachePath =>
        \A n \in 1..Len(ChunkFrames) :
            LET f == ChunkFrames[n]
            IN  /\ f.id >= 0
                /\ f.id < Len(buffer)
                /\ f.text = Chars(buffer[f.id + 1])

\* C20: a reconnection with Last-Event-ID 0 replays the Buffer from index 0,
\* one with Last-Event-ID N > 0 from index N: what has been forwarded is, in
\* index order and once each, the non-sentinel entries of a slice of the
\* Buffer that starts at that index.
C20_ReplayFromIndex ==
    OnCachePath =>
        \/ ChunkTexts(frames) = <<>>
        \/ \E m \in (last_event_id + 1)..Len(buffer) :
              ChunkTexts(frames) = EntryTexts(SubSeq(buffer, last_event_id + 1, m))

\* the frames a step appends
NewFrames == SubSeq(frames', Len(frames) + 1, Len(frames'))

\* C21: when the cache read of an iteration raises, reconnect_stream polls the
\* Chat Record in that same iteration and never uses the cache again; the
\* terminal frame of an iteration on the DB path is the one of the Chat.status
\* read (completed: done/[DONE], interrupted: done/[INTERRUPT], failed:
\* failed/[FAILED]), and none is sent while Chat.status is active.
C21_CacheFaultSwitchesToDb ==
    /\ [][~use_redis => ~use_redis']_vars
    /\ [][(ReplayerPoll /\ ~(use_redis /\ cache_up)) =>
            /\ ~use_redis'
            /\ LET rest == SubSeq(llm_response, db_content_sent + 1, Len(llm_response))
                    text == IF rest = <<>> THEN <<>>
                            ELSE << [event |-> "chunk", id |-> sent_so_far, text |-> rest] >>
                    last == CASE chat_status = COMPLETED ->
                                   << [event |-> "done", id |-> sent_so_far, data |-> "[DONE]"] >>
                              [] chat_status = INTERRUPTED ->
                                   << [event |-> "done", id |-> sent_so_far, data |-> "[INTERRUPT]"] >>
                              [] chat_status = FAILED ->
                                   << [event |-> "failed", id |-> sent_so_far, data |-> "[FAILED]"] >>
                              [] OTHER -> <<>>
                IN  NewFrames = text \o last]_vars

\* the cache raised, and the terminal frame sent is the one of a Chat.status
\* that differs from the Status Store value
C21_Witness ==
    /\ r_pc = "done"
    /\ r_cache_failed
    /\ ~use_redis
    /\ chat_status = INTERRUPTED
    /\ status_store = COMPLETED
    /\ Last(frames).data = "[INTERRUPT]"

\* C22: reconnect_stream sends no chunk frame whose text holds a sentinel
\* literal, on the cache path and on the DB-fallback path.
C22_ReplayLeaksNoSentinel ==
    r_pc \in {"poll", "done"} =>
        \A n \in 1..Len(ChunkFrames) : InLiteral(ChunkFrames[n].text) = {}

\* C23: a stop_chat call that finds no Status Store entry answers 404, one
\* that finds a status other than active answers 200; either call ends there
\* and leaves the Status Store, the Buffer and the Chat Record unchanged.
C23_StopIsNoOpUnlessActive ==
    [][(s_pc = "idle" /\ stop_vars' # stop_vars /\ cache_up /\ status_store # ACTIVE) =>
          /\ s_response' = (IF status_store = "none" THEN "404" ELSE "200")
          /\ s_pc' = "idle"
          /\ UNCHANGED << status_store, buffer, chat_status, llm_response, chat_usage >>]_vars

\* stop_chat has answered 200 on a completed chat without ever writing
C23_Witness ==
    /\ s_response = "200"
    /\ stop_wrote = "never"
    /\ s_pc = "idle"
    /\ ProducerOver
    /\ status_store = COMPLETED
    /\ chat_status = COMPLETED

\* C24: a POST /chat that carries chat_uuid is only a reconnection.  Neither
\* the request nor the stream it opens changes the Producer, the channel, the
\* flush tasks, the Status Store, the Buffer or the Chat Record; an unknown
\* uuid is answered 404, a chat whose DB status is terminal with the JSON body
\* {text, status}, and only an active chat with the event stream.
C24_ReconnectionOnly ==
    /\ [][replayer_vars' # replayer_vars =>
            UNCHANGED << producer_vars, channel_vars, task_vars, cache_vars, db_vars >>]_vars
    /\ [][(r_pc = "idle" /\ r_pc' # "idle") =>
            /\ r_pc' \in {"404", "stream", "json"}
            /\ r_pc' = "stream" => chat_status = ACTIVE
            /\ r_pc' = "json" =>
                  /\ chat_status \in TerminalStatuses
                  /\ r_json' = [text |-> llm_response, status |-> chat_status]]_vars
    /\ [](\A st \in TerminalStatuses \cup {ACTIVE} : ReconnectOutcome(FALSE, st) = "404")

\* a reconnection to the interrupted chat was answered with the JSON body
C24_Witness ==
    /\ r_pc = "json"
    /\ r_json.status = INTERRUPTED
    /\ r_json.text # <<>>
    /\ frames = <<>>

\* C25: neither the Status Store value nor Chat.status returns to active
\* after a terminal value.  Active is written only by start_chat's creation
\* steps (the row by save_chat, the key by set_status), the creation steps
\* never run again, and until they are over the key is absent and the row
\* holds no terminal status.
C25_NoReturnToActive ==
    /\ [](p_pc \in {"request", "saved"} =>
            /\ status_store = "none"
            /\ chat_status \notin TerminalStatuses)
    /\ [][(p_pc' \in {"request", "saved"}) => p_pc \in {"request", "saved"}]_vars
    /\ [][(status_store' = ACTIVE /\ status_store # ACTIVE) => p_pc = "saved"]_vars
    /\ [][(chat_status' = ACTIVE /\ chat_status # ACTIVE) => p_pc = "request"]_vars
    /\ [][(status_store \in TerminalStatuses) => (status_store' # ACTIVE)]_vars
    /\ [][(chat_status \in TerminalStatuses) => (chat_status' # ACTIVE)]_vars

\* both stop_chat and the Producer have written a terminal status
C25_Witness ==
    /\ p_pc = "done"
    /\ stop_wrote # "never"
    /\ status_store = COMPLETED
    /\ chat_status = INTERRUPTED

\* C26: the finally block of the Producer performs all of its steps on
\* every exit path, and no failure of its writes escapes the Producer: a
\* Producer that is over has enqueued its terminal sentinel, handed redis_buf
\* to the final flush and made the final Chat Record write, and it has not
\* ended by an exception.
C26_FinalizationSwallowsFailures ==
    /\ [](ProducerOver =>
            /\ enqueued # <<>>
            /\ Last(enqueued) \in TerminalSentinels
            /\ redis_buf = <<>>
            /\ db_final)
    /\ [](p_pc # "raised")

\* a step in which a Buffer flush (of a background task or the final one)
\* fails: its pipeline raises
FailedBufferFlush ==
    /\ ~cache_up
    /\ \/ Len(redis_tasks') < Len(redis_tasks)
       \/ (p_pc = "fin_redis" /\ p_pc' # "fin_redis")

\* a step in which a partial Chat Record write ends without changing the row
FailedPartialWrite ==
    /\ Len(db_tasks') < Len(db_tasks)
    /\ llm_response' = llm_response

\* C27: a failed Buffer flush or a failed partial Chat Record write leaves
\* the Producer's status, all_chunks and the items enqueued on the channel as
\* they are; the Producer still reaches its final Chat Record write, which
\* stores the cleaned join of the whole of all_chunks.
C27_FlushFailuresAreSwallowed ==
    /\ [][FailedBufferFlush =>
            UNCHANGED << status, all_chunks, queue, enqueued, db_vars >>]_vars
    /\ [][FailedPartialWrite =>
            UNCHANGED << producer_vars, channel_vars, cache_vars, db_vars >>]_vars
    /\ [][(p_pc = "fin_redis" /\ p_pc' # "fin_redis") => p_pc' = "fin_db"]_vars
    /\ [][(p_pc = "fin_db" /\ p_pc' # "fin_db") =>
            /\ db_final'
            /\ llm_response' = clean_response(Join(all_chunks))
            /\ IsSubseq(enqueued, all_chunks)]_vars
    /\ [](ProducerOver => db_final)

\* a background Buffer flush, the final Buffer flush and a partial Chat
\* Record write have failed, and the final write was made
C27_Witness ==
    /\ ProducerOver
    /\ db_final
    /\ db_failed
    /\ ~cache_up
    /\ buffer = <<>>
    /\ redis_tasks = <<>>
    /\ Len(enqueued) >= 3
    /\ llm_response = clean_response(Join(all_chunks))

\* C28: a partial DB write leaves in llm_response the raw join of all the
\* chunks accumulated when its snapshot was taken, i.e. of a prefix of
\* all_chunks; between partial writes llm_response only grows by appending.
C28_PartialWriteIsWholeAccumulation ==
    [][(Len(db_tasks') < Len(db_tasks) /\ ~db_final) =>
          /\ \E k \in 1..Len(all_chunks) :
                llm_response' = Join(SubSeq(all_chunks, 1, k))
          /\ Len(llm_response') >= Len(llm_response)
          /\ SubSeq(llm_response', 1, Len(llm_response)) = llm_response]_vars

\* the concatenation of a sequence of texts
RECURSIVE Flat(_)
Flat(ts) == IF ts = <<>> THEN <<>> ELSE Head(ts) \o Flat(Tail(ts))

\* the characters of the chunk frames received over the connection, in order
Received == Flat(ChunkTexts(frames))

\* the upstream texts among the characters of s, in order
TokensOf(s) == SelectSeq(s, LAMBDA c : \E n \in 1..6 : c = ChunkText(n))

\* C29: once reconnect_stream is on the DB-fallback path, the text received
\* over the connection is one contiguous piece of the text the Producer has
\* accumulated: nothing is forwarded twice and nothing is skipped.
C29_FallbackSendsRemainder ==
    (r_pc \in {"poll", "done"} /\ ~use_redis) =>
        LET got == TokensOf(Received)
            acc == TokensOf(Join(all_chunks))
        IN  \E i \in 0..Len(acc) :
                /\ i + Len(got) <= Len(acc)
                /\ got = SubSeq(acc, i + 1, i + Len(got))

\* a step in which the await of the next upstream chunk times out after
\* ALIVE_INTERVAL_S: an upstream event that brings no chunk
PerChunkTimeout ==
    /\ p_pc = "next"
    /\ upstream_n' = upstream_n + 1
    /\ text_n' = text_n

\* C30: a per-chunk timeout cancels nothing in the Producer (neither the
\* Producer task nor its pending read of the upstream); it appends one
\* HEARTBEAT to redis_buf, db_buf, all_chunks and the channel (a buffer that
\* reaches its threshold goes to a flush task with the heartbeat as its last
\* item), leaves the tentative status unchanged and goes on to the
\* cancellation check of the loop; the chunks of the upstream are enqueued in
\* their order, before and after heartbeats.
C30_StallOnlyAddsHeartbeat ==
    /\ [][PerChunkTimeout =>
            /\ all_chunks' = Append(all_chunks, HEARTBEAT_PLACEHOLDER)
            /\ queue' = Append(queue, HEARTBEAT_PLACEHOLDER)
            /\ enqueued' = Append(enqueued, HEARTBEAT_PLACEHOLDER)
            /\ \/ /\ redis_buf' = Append(redis_buf, HEARTBEAT_PLACEHOLDER)
                  /\ redis_tasks' = redis_tasks
               \/ /\ redis_buf' = <<>>
                  /\ redis_tasks' =
                        Append(redis_tasks, Append(redis_buf, HEARTBEAT_PLACEHOLDER))
            /\ \/ /\ db_buf' = Append(db_buf, HEARTBEAT_PLACEHOLDER)
                  /\ db_tasks' = db_tasks
               \/ /\ db_buf' = <<>>
                  /\ db_tasks' = Append(db_tasks, Append(db_buf, HEARTBEAT_PLACEHOLDER))
            /\ UNCHANGED << status, final_usage, cache_vars, db_vars >>
            /\ p_pc' = "check"
            /\ UNCHANGED << p_cancelled, read_cancelled >>]_vars
    /\ [](/\ Len(EntryTexts(enqueued)) = text_n
          /\ \A i \in 1..text_n : EntryTexts(enqueued)[i] = Chars(ChunkText(i)))

\* the items a step enqueues on the local channel
NewlyEnqueued == SubSeq(enqueued', Len(enqueued) + 1, Len(enqueued'))

\* C31: once a cancellation check has read interrupted the Producer enqueues
\* nothing but terminal sentinels; after stop_chat's write of interrupted
\* (here: a write made before the first chunk) the Producer enqueues at most
\* one more chunk or heartbeat; and the final Chat Record write of an
\* interrupted Producer stores the concatenation of the non-sentinel chunks
\* enqueued on the channel.
C31_InterruptStopsEnqueueing ==
    /\ [][status = INTERRUPTED =>
            \A i \in 1..Len(NewlyEnqueued) : NewlyEnqueued[i] \in TerminalSentinels]_vars
    /\ [](Len(SelectSeq(enqueued, LAMBDA x : x \notin TerminalSentinels)) <= 1)
    /\ [][(p_pc = "fin_db" /\ p_pc' # "fin_db" /\ status = INTERRUPTED) =>
            llm_response' = Flat(EntryTexts(enqueued))]_vars

(* ---- C32 ---- *)

\* reconnect_stream got past the check of the row's status
PastStatusGate == r_pc \in {"poll", "done"} \/ (r_pc = "refused" /\ frames[2].data = "[FAILED]")

C33_FlushRefreshesStatusTtl ==
    /\ [][Len(buffer') > Len(buffer) => status_ttl' = REDIS_TTL_S]_vars
    /\ [](status_ttl >= buffer_ttl)

(* ---- C34 ---- *)

\* C34: for every raw string the enumerated items spell, the text that
\* clean_response returns holds no occurrence of a sentinel literal, also
\* where the removal of one occurrence brings the text around it together.
C34_CleanResponseLeavesNoSentinel ==
    db_final => \A j \in 1..Len(Placeholders) : \A k \in 1..Len(llm_response) :
                    ~MatchesAt(llm_response, k, Placeholders[j])

(* ---- C35 ---- *)

\* the items handed to a Buffer flush that has not run yet, then the items
\* redis_buf holds
HandedOrHeld == Flat(redis_tasks) \o redis_buf

\* the items the Producer has appended to redis_buf: every item of all_chunks
\* but the sentinel a handler or the interrupt check appends to all_chunks alone
AppendedToRedisBuf ==
    SelectSeq(all_chunks, LAMBDA x : x \notin TerminalSentinels) \o << Last(all_chunks) >>

Count(items, x) == Cardinality({i \in 1..Len(items) : items[i] = x})

\* C35: while the Producer awaits the next upstream chunk, redis_buf holds
\* fewer than REDIS_FLUSH_EVERY_N items and db_buf fewer than
\* DB_FLUSH_EVERY_M.  A flush task is created with the whole of redis_buf,
\* which is cleared in the same step; apart from a flush running, the items
\* handed or held change only by the item just accumulated being added at the
\* end; the final flush pushes all of redis_buf and clears it.  So when the
\* Producer and its flush tasks are over and the cache has answered, the
\* Buffer holds every item appended to redis_buf exactly as often as it was
\* appended.
C35_EachItemFlushedOnce ==
    /\ [](p_pc = "next" =>
            Len(redis_buf) < REDIS_FLUSH_EVERY_N /\ Len(db_buf) < DB_FLUSH_EVERY_M)
    /\ [][Len(redis_tasks') > Len(redis_tasks) =>
            /\ redis_tasks' = Append(redis_tasks, Append(redis_buf, Last(all_chunks')))
            /\ redis_buf' = <<>>]_vars
    /\ [][(Len(redis_tasks') >= Len(redis_tasks) /\ p_pc # "fin_redis") =>
            \/ HandedOrHeld' = HandedOrHeld
            \/ /\ all_chunks' # all_chunks
               /\ HandedOrHeld' = Append(HandedOrHeld, Last(all_chunks'))]_vars
    /\ [][(p_pc = "fin_redis" /\ p_pc' # "fin_redis") =>
            /\ redis_buf' = <<>>
            /\ cache_up => buffer' = buffer \o redis_buf]_vars
    /\ []((ProducerOver /\ redis_tasks = <<>> /\ cache_up) =>
            \A x \in {all_chunks[i] : i \in 1..Len(all_chunks)} :
                Count(buffer, x) = Count(AppendedToRedisBuf, x))

\* two snapshots of REDIS_FLUSH_EVERY_N items and the final flush have
\* reached the Buffer
C35_Witness ==
    /\ ProducerOver
    /\ redis_tasks = <<>>
    /\ cache_up
    /\ Len(buffer) = 2 * REDIS_FLUSH_EVERY_N + 1

(* ---- C36 ---- *)

\* C36: all_chunks is at every moment the sequence of the items put on the
\* local channel so far, sentinels included, and it changes only by items
\* being appended: no flush, snapshot or clear shortens it.
C36_AllChunksIsWhatWasEnqueued ==
    /\ [](all_chunks = enqueued)
    /\ [][/\ Len(all_chunks') >= Len(all_chunks)
          /\ SubSeq(all_chunks', 1, Len(all_chunks)) = all_chunks]_vars

\* a Producer that made two partial DB writes and then failed: its handler
\* and its finally block each added a sentinel
C36_Witness ==
    /\ ProducerOver
    /\ db_tasks = <<>>
    /\ TerminalCount(all_chunks) = 2
    /\ Len(all_chunks) = 2 * DB_FLUSH_EVERY_M + 2

(* ---- C37 ---- *)

\* C37: the Producer writes its terminal status to the Status Store after
\* the final Buffer flush and the final Chat Record write; and when a cache
\* read of reconnect_stream returns a terminal status, the Buffer it reads
\* in the same round trip holds every item the Producer has handed to a
\* flush, the terminal sentinel included.
C37_TerminalStatusFollowsAllFlushes ==
    /\ [][(status_store' # status_store /\ status_store' \in TerminalStatuses) =>
            (p_pc = "fin_status" /\ db_final /\ redis_buf = <<>>)]_vars
    /\ [][(r_pc = "poll" /\ frames' # frames /\ use_redis /\ cache_up
              /\ status_store \in TerminalStatuses) =>
            \A x \in {all_chunks[i] : i \in 1..Len(all_chunks)} :
                Count(buffer, x) = Count(AppendedToRedisBuf, x)]_vars

(* ---- C38 ---- *)

\* the items stream_generator sends as chunk frames, in channel order
Streamed == SelectSeq(enqueued, LAMBDA x : x \notin TerminalSentinels)

\* the id stream_generator gives the chunk frame of the n-th item it streams
EmitterId(n) == n - 1

\* C38: a chunk has the same SSE id on both streams.  On the original
\* connection the n-th chunk frame carries the n-th streamed item with the
\* id EmitterId(n); on a reconnection every chunk frame that carries the n-th
\* streamed item has that same id; and a client that reconnects with the id
\* of the last chunk frame it received is sent, on the cache path, the
\* chunks that follow that frame, from the next one on.
C38_SameIdOnBothStreams ==
    /\ r_pc = "idle" =>
          LET fs == SelectSeq(frames, LAMBDA f : f.event = "chunk")
          IN  \A n \in 1..Len(fs) :
                  fs[n].id = EmitterId(n) /\ fs[n].text = Chars(Streamed[n])
    /\ r_pc \in {"poll", "done"} =>
          \A i \in 1..Len(frames) : \A n \in 1..Len(Streamed) :
              (frames[i].event = "chunk" /\ Streamed[n] \notin Sentinels
                  /\ frames[i].text = Chars(Streamed[n]))
                => frames[i].id = EmitterId(n)
    /\ (r_pc \in {"poll", "done"} /\ chunk_idx >= 1 /\ last_event_id = EmitterId(chunk_idx)
          /\ ~r_cache_failed) =>
          LET rest == SubSeq(Streamed, chunk_idx + 1, Len(Streamed))
              got == ChunkTexts(frames)
          IN  /\ Len(got) <= Len(EntryTexts(rest))
              /\ got = SubSeq(EntryTexts(rest), 1, Len(got))

(* ---- C39 ---- *)

\* C39: stream_generator ends only out of the await of the shielded Producer
\* task in its finally block, whichever way its loop was left, and when it
\* has ended the Producer task is over.
C39_GeneratorEndsAfterProducer ==
    /\ [][(e_pc # "done" /\ e_pc' = "done") => e_pc = "finally"]_vars
    /\ [](e_pc = "done" => ProducerOver)

====
